---- MODULE Spec2Model ----
(***************************************************************************)
(* A model of the PDF chat backend: the VectorStore retrieval engine      *)
(* (backend/vector_store.py), the upload and chat request handlers        *)
(* (backend/main.py, backend/chat_handler.py) and the document pipeline   *)
(* that feeds them (backend/document_processor.py).                       *)
(*                                                                         *)
(* The process is a single uvicorn worker: every handler is an `async def` *)
(* coroutine of one event loop, so a handler runs without interruption    *)
(* from one `await` to the next.  The variable `loop` is the coroutine    *)
(* that currently runs on the loop (0 when the loop is idle).             *)
(* The process may die at any step (Crash); the two files under            *)
(* data/vector_db survive it, the memory does not.                        *)
(***************************************************************************)
EXTENDS Integers, Sequences, FiniteSets, TLC

VARIABLES
    phase,        \* "down" | "started" (startup_event has run) | "serving"
    groqKey,      \* GROQ_API_KEY is set in the environment (main.py:33)
    vector_store, \* the global vector_store is not None (main.py:41,51)
    chat_handler, \* the global chat_handler is not None (main.py:42,53)
    index,        \* VectorStore.index: the vectors of the IndexFlatIP, in order
    metadata,     \* VectorStore.metadata: the list of per-chunk dicts
    diskIndex,    \* the file data/vector_db/faiss_index.bin
    diskMeta,     \* the file data/vector_db/metadata.pkl
    req,          \* the HTTP requests: the frame of each handler coroutine
    loop,         \* the coroutine running on the event loop, 0 when idle
    call,         \* a direct, synchronous call of VectorStore.search(query, k)
    crashes,      \* number of process deaths so far
    chunk_size,   \* DocumentProcessor.chunk_size (document_processor.py:9)
    chunk_overlap,\* DocumentProcessor.chunk_overlap (document_processor.py:10)
    text,         \* create_chunks: the text of the page being cut
    start,        \* create_chunks: the local `start` of the window loop
    end,          \* create_chunks: the local `end` of the last iteration
    chunks,       \* create_chunks: the list `chunks` built so far
    iter,         \* iterations of the window loop so far
    cpc           \* position in create_chunks: "idle" | "loop" | "returned"

\* The frame of one create_chunks call and the processor it runs on.
chunker == <<chunk_size, chunk_overlap, text, start, end, chunks, iter, cpc>>

\* The server: the store, its files and the request handlers.
server == <<phase, groqKey, vector_store, chat_handler, index, metadata,
            diskIndex, diskMeta, req, loop, call, crashes>>

vars == <<phase, groqKey, vector_store, chat_handler, index, metadata,
          diskIndex, diskMeta, req, loop, call, crashes, chunker>>

----------------------------------------------------------------------------
(* Bounds of the model *)

MaxRequests == 2   \* HTTP requests over the whole run
MaxFiles == 2      \* files of one upload request
MaxEntries == 3    \* chunks that the requests in flight may bring the store to
MaxCrashes == 1    \* process deaths
MaxK == 3          \* largest k of a direct search call

(* generate_response(question, top_k=5) *)
TopK == 5

Requests == 1..MaxRequests
Caller == MaxRequests + 1    \* the owner of the loop during a direct call

Min(a, b) == IF a <= b THEN a ELSE b

Range(s) == {s[i] : i \in 1..Len(s)}

----------------------------------------------------------------------------
(* The embedding model.  A vector is a pair of integers: the model's      *)
(* vectors are axis-aligned and not of unit length, so that normalisation *)
(* is a computation and the inner product of two normalised vectors is    *)
(* -1, 0 or 1.                                                            *)

Questions == {"q1", "q2"}

encode(sentence) ==
    CASE sentence = "t1" -> <<2, 0>>
      [] sentence = "t2" -> <<0, 3>>
      [] sentence = "q1" -> <<3, 0>>
      [] sentence = "q2" -> <<0, 0 - 2>>

Abs(x) == IF x < 0 THEN 0 - x ELSE x

(* faiss.normalize_L2: divide each component by the L2 norm; the norm of  *)
(* an axis-aligned vector is the absolute value of its one component.     *)
normalize_L2(v) ==
    LET norm == Abs(v[1]) + Abs(v[2])
    IN  IF norm = 0 THEN v ELSE <<v[1] \div norm, v[2] \div norm>>

InnerProduct(u, v) == u[1] * v[1] + u[2] * v[2]

----------------------------------------------------------------------------
(* The uploaded documents.  A file is its name (stem and extension),      *)
(* whether PyPDF2 can read it, and its pages; a page is the sequence of   *)
(* chunk contents that the sliding window of create_chunks keeps for it   *)
(* (empty when the page's text has no window longer than 50 characters).  *)

Name(stem, ext) == [stem |-> stem, ext |-> ext]

FileA == [filename |-> Name("a", ".pdf"), readable |-> TRUE, pages |-> << <<"t1", "t2">> >>]
FileB == [filename |-> Name("b", ".pdf"), readable |-> TRUE, pages |-> << <<"t1">> >>]
FileShort == [filename |-> Name("short", ".pdf"), readable |-> TRUE, pages |-> << <<>> >>]
FileScan == [filename |-> Name("scan", ".pdf"), readable |-> TRUE, pages |-> <<>>]
FileBroken == [filename |-> Name("broken", ".pdf"), readable |-> FALSE, pages |-> <<>>]
FileTxt == [filename |-> Name("notes", ".txt"), readable |-> FALSE, pages |-> <<>>]

Files == {FileA, FileB, FileShort, FileScan, FileBroken, FileTxt}

(* file.filename.endswith('.pdf') *)
EndsWithPdf(file) == file.filename.ext = ".pdf"

Uploads == UNION {[1..n -> Files] : n \in 1..MaxFiles}

RECURSIVE Flatten(_)
Flatten(ss) == IF ss = <<>> THEN <<>> ELSE Head(ss) \o Flatten(Tail(ss))

(* create_chunks, as far as the upload depends on it: one DocumentChunk   *)
(* per kept window, in page order.  The chunk_id is str(uuid.uuid4()):    *)
(* unique; here the triple of the request, the file's position and the    *)
(* chunk's position.                                                      *)
document_chunks(file, r, fi) ==
    LET RECURSIVE PageChunks(_, _)
        PageChunks(p, acc) ==
            IF p > Len(file.pages) THEN acc
            ELSE PageChunks(p + 1, acc \o
                   [c \in 1..Len(file.pages[p]) |->
                      [content |-> file.pages[p][c], filename |-> file.filename,
                       page_number |-> p, chunk_id |-> <<r, fi, Len(acc) + c>>]])
    IN  PageChunks(1, <<>>)

(* process_pdf: extract_text_from_pdf raises when the file cannot be read *)
(* or no page has text; process_pdf raises when no chunk is created.      *)
process_pdf(file, r, fi) ==
    IF ~file.readable
      THEN [ok |-> FALSE, error |-> "Failed to read PDF", chunks |-> <<>>]
    ELSE IF file.pages = <<>>
      THEN [ok |-> FALSE, error |-> "No text content", chunks |-> <<>>]
    ELSE IF document_chunks(file, r, fi) = <<>>
      THEN [ok |-> FALSE, error |-> "No valid chunks", chunks |-> <<>>]
    ELSE [ok |-> TRUE, error |-> "", chunks |-> document_chunks(file, r, fi)]

NumChunks(file) == Len(Flatten(file.pages))

RECURSIVE TotalChunks(_)
TotalChunks(files) ==
    IF files = <<>> THEN 0 ELSE NumChunks(Head(files)) + TotalChunks(Tail(files))

----------------------------------------------------------------------------
(* The two persisted artifacts.  A file is missing, truncated (opened for *)
(* writing and not, or not completely, written) or holds a serialised     *)
(* object.                                                                *)

Missing == [kind |-> "missing", n |-> 0, body |-> <<>>]
Truncated == [kind |-> "truncated", n |-> 0, body |-> <<>>]

(* faiss.write_index of an IndexFlatIP: the header with ntotal, then the vectors *)
write_index(ix) == [kind |-> "IxFI", n |-> Len(ix), body |-> ix]
(* pickle.dump of the metadata list *)
pickle_dump(md) == [kind |-> "pickle", n |-> Len(md), body |-> md]

exists(f) == f.kind # "missing"
(* faiss.read_index / pickle.load succeed only on a completely written file *)
read_index_ok(f) == f.kind = "IxFI" /\ f.n = Len(f.body)
pickle_load_ok(f) == f.kind = "pickle" /\ f.n = Len(f.body)

----------------------------------------------------------------------------
(* VectorStore *)

(* _create_new_index: an empty IndexFlatIP and an empty list *)
create_new_index == [index |-> <<>>, metadata |-> <<>>]

(* load_or_create_index: both files exist and both deserialise, or a new  *)
(* index.  The entry counts of the two are not compared.                  *)
load_or_create_index(fi, fm) ==
    IF exists(fi) /\ exists(fm)
      THEN IF read_index_ok(fi) /\ pickle_load_ok(fm)
             THEN [index |-> fi.body, metadata |-> fm.body]
             ELSE create_new_index
      ELSE create_new_index

(* The score faiss reports for a slot it could not fill (label -1): lower *)
(* than every inner product of two unit vectors.                          *)
NoScore == 0 - 2

(* IndexFlatIP.search: the n best positions by inner product, best first. *)
(* The library does not order equal scores by position: every order of a  *)
(* tie is a possible output.                                              *)
RECURSIVE Rankings(_, _, _, _)
Rankings(ix, qv, S, n) ==
    IF n = 0 \/ S = {} THEN {<<>>}
    ELSE LET best == {p \in S : \A o \in S :
                         InnerProduct(qv, ix[p]) >= InnerProduct(qv, ix[o])}
         IN  UNION {{<<p>> \o rest : rest \in Rankings(ix, qv, S \ {p}, n - 1)} :
                      p \in best}

(* The k slots of one query: labels are 0-based positions, -1 where the   *)
(* index holds fewer than k vectors.                                      *)
FaissSearch(ix, qv, k) ==
    {[s \in 1..k |->
        IF s <= Len(rk)
          THEN [label |-> rk[s] - 1, score |-> InnerProduct(qv, ix[rk[s]])]
          ELSE [label |-> 0 - 1, score |-> NoScore]] :
     rk \in Rankings(ix, qv, 1..Len(ix), k)}

(* A search that asks the index for every entry, whatever k is *)
SearchKAll(k, n) == n

(* The number of neighbours search asks the index for *)
SearchK(k, n) == Min(k, n)

(* The filter of the result loop: idx != -1 and idx < len(self.metadata) *)
KeepSlot(slot, md) == slot.label # 0 - 1 /\ slot.label < Len(md)

(* search: the possible return values, each with the slots faiss gave.    *)
(* Any exception (a failed encode, faiss rejecting k < 1) is caught and   *)
(* the empty list returned.                                               *)
SearchOutcomes(ix, md, q, k) ==
    IF Len(md) = 0 THEN {[slots |-> <<>>, results |-> <<>>]}
    ELSE {[slots |-> <<>>, results |-> <<>>]} \cup
         (IF SearchK(k, Len(md)) < 1 THEN {}
          ELSE {[slots |-> out,
                 results |->
                   LET kept == SelectSeq(out, LAMBDA slot : KeepSlot(slot, md))
                   IN  [i \in 1..Len(kept) |->
                          [meta |-> md[kept[i].label + 1], score |-> kept[i].score]]] :
                out \in FaissSearch(ix, normalize_L2(encode(q)), SearchK(k, Len(md)))})

----------------------------------------------------------------------------
(* The request handlers *)

NoRequest ==
    [kind |-> "none", pc |-> "none", files |-> <<>>, fi |-> 0, chunks |-> <<>>,
     emb |-> <<>>, ai |-> 0, processed |-> <<>>, status |-> 0,
     slots |-> <<>>, results |-> <<>>]

NoCall == [active |-> FALSE, q |-> "", k |-> 0, slots |-> <<>>, results |-> <<>>]

(* The response is sent (a return or an HTTPException) and the handler's  *)
(* frame is gone: what stays is the status code.                          *)
Finish(rec, status) ==
    [NoRequest EXCEPT !.kind = rec.kind, !.pc = "done", !.status = status]

(* Request ids are given out in order *)
NextId(r) == req[r].kind = "none" /\ \A o \in 1..(r - 1) : req[o].kind # "none"

(* No handler has started and not finished *)
Quiescent == \A r \in Requests : req[r].pc \in {"none", "done", "lost"}

(* The head of `for file in files`: the .pdf check, then `await file.read()` *)
LoopHead(rec) ==
    IF rec.fi > Len(rec.files) THEN Finish(rec, 200)
    ELSE IF ~EndsWithPdf(rec.files[rec.fi]) THEN Finish(rec, 400)
    ELSE [rec EXCEPT !.pc = "await_read"]

----------------------------------------------------------------------------
(* DocumentProcessor.create_chunks: the window loop over one page text.   *)
(* A text is kept as its runs of equal characters, <<[ch, n], ...>>: the  *)
(* string of n1 times ch1, then n2 times ch2, ...  Indices are Python's:  *)
(* the first character has index 0.                                       *)

DefaultChunkSize == 1000     \* document_processor.py:8, chunk_size
DefaultChunkOverlap == 200   \* document_processor.py:8, chunk_overlap
LookBack == 100              \* document_processor.py:63, end - 100
MinContent == 50             \* document_processor.py:69, len(chunk_text) > 50

MaxRuns == 3   \* runs of equal characters in a page text
MaxIter == 8   \* iterations of the window loop that the model follows

Max(a, b) == IF a > b THEN a ELSE b
SetMax(S) == CHOOSE x \in S : \A y \in S : y <= x
SetMin(S) == CHOOSE x \in S : \A y \in S : x <= y

Terminators == {".", "!", "?", "\n"}   \* text[i] in '.!?\n'
Whitespace == {" ", "\n", "\t"}        \* what str.strip() removes

\* Index one past the k-th run.
RECURSIVE RunEnd(_, _)
RunEnd(t, k) == IF k = 0 THEN 0 ELSE RunEnd(t, k - 1) + t[k].n

\* len(text)
TextLen(t) == RunEnd(t, Len(t))

\* The run that holds index i, 0 <= i < len(text), and text[i].
RunOf(t, i) == CHOOSE k \in 1..Len(t) : RunEnd(t, k - 1) <= i /\ i < RunEnd(t, k)
CharAt(t, i) == t[RunOf(t, i)].ch

\* text[i]: a negative index counts from the end; outside
\* -len(text) .. len(text)-1 it raises IndexError.
InRange(t, i) == 0 - TextLen(t) <= i /\ i < TextLen(t)
Wrap(t, i) == IF i < 0 THEN i + TextLen(t) ELSE i
Item(t, i) == CharAt(t, Wrap(t, i))

\* How many characters before text[i] belong to the run of text[i].
Before(t, i) == Wrap(t, i) - RunEnd(t, RunOf(t, Wrap(t, i)) - 1)

\* text[a:b] as the half-open pair <<lo, hi>> of true indices (empty when
\* lo >= hi): a negative bound counts from the end, both are clamped.
Clamp(t, a) == IF a < 0 THEN Max(a + TextLen(t), 0) ELSE Min(a, TextLen(t))
Slice(t, a, b) == <<Clamp(t, a), Clamp(t, b)>>

\* text[lo:hi].strip() as the pair of indices of what is left.
Strip(t, lo, hi) ==
    LET solid == {k \in 1..Len(t) : /\ t[k].ch \notin Whitespace
                                    /\ Max(RunEnd(t, k - 1), lo)
                                         < Min(RunEnd(t, k), hi)}
    IN  IF solid = {} THEN <<lo, lo>>
        ELSE <<Max(RunEnd(t, SetMin(solid) - 1), lo),
               Min(RunEnd(t, SetMax(solid)), hi)>>

\* Lines 63-66: for i in range(i, stop, -1): if text[i] in '.!?\n': break.
\* The outcome is the index of the break, the end of the range without a
\* break, or the IndexError of text[i].  When text[i] is no terminator,
\* neither are the equal characters before it in its run: the scan goes on
\* at the index before the run.
RECURSIVE Scan(_, _, _)
Scan(t, i, stop) ==
    IF i <= stop THEN [kind |-> "exhausted"]
    ELSE IF ~InRange(t, i) THEN [kind |-> "IndexError"]
    ELSE IF Item(t, i) \in Terminators THEN [kind |-> "break", i |-> i]
    ELSE Scan(t, i - Before(t, i) - 1, stop)

\* Lines 62-66 for the window that starts at s; e is line 59's end.
Boundary(t, s, e) ==
    IF e < TextLen(t) THEN Scan(t, e, Max(s, e - LookBack))
    ELSE [kind |-> "exhausted"]

Raises(t, s, e) == Boundary(t, s, e).kind = "IndexError"

\* The value of `end` after line 66.
BreakEnd(t, s, e) ==
    LET b == Boundary(t, s, e) IN IF b.kind = "break" THEN b.i + 1 ELSE e

\* Line 78: start = end - self.chunk_overlap if end < len(text) else end
NextStart(e, n, overlap) == IF e < n THEN e - overlap ELSE e

\* The processor and the frame when no create_chunks call is in progress.
ChunkerIdle ==
    /\ chunk_size = DefaultChunkSize
    /\ chunk_overlap = DefaultChunkOverlap
    /\ text = <<>>
    /\ start = 0
    /\ end = 0
    /\ chunks = <<>>
    /\ iter = 0
    /\ cpc = "idle"

(* Chunks that the uploads in flight may still add *)
RECURSIVE PendingChunks(_)
PendingChunks(rs) ==
    IF rs = {} THEN 0
    ELSE LET r == CHOOSE x \in rs : TRUE
         IN  (IF req[r].kind = "upload" /\ req[r].pc \notin {"done", "lost"}
                THEN TotalChunks(req[r].files) ELSE 0) + PendingChunks(rs \ {r})

Init ==
    /\ phase = "down"
    /\ groqKey \in BOOLEAN
    /\ vector_store = FALSE
    /\ chat_handler = FALSE
    /\ index = <<>>
    /\ metadata = <<>>
    /\ diskIndex = Missing
    /\ diskMeta = Missing
    /\ req = [r \in Requests |-> NoRequest]
    /\ loop = 0
    /\ call = NoCall
    /\ crashes = 0
    /\ ChunkerIdle

(* startup_event: DocumentProcessor(), VectorStore() (which raises when   *)
(* the SentenceTransformer cannot be loaded, and loads the index          *)
(* otherwise), ChatHandler when the API key is set.  Exceptions are       *)
(* printed, not raised.                                                   *)
Startup ==
    /\ phase = "down"
    /\ \E modelOk \in BOOLEAN :
         /\ vector_store' = modelOk
         /\ chat_handler' = (modelOk /\ groqKey)
         /\ index' = IF modelOk THEN load_or_create_index(diskIndex, diskMeta).index
                     ELSE <<>>
         /\ metadata' = IF modelOk THEN load_or_create_index(diskIndex, diskMeta).metadata
                        ELSE <<>>
    /\ phase' = "started"
    /\ UNCHANGED <<chunker, groqKey, diskIndex, diskMeta, req, loop, call, crashes>>

(* uvicorn starts to accept requests once the startup handler has returned *)
Serve ==
    /\ phase = "started"
    /\ phase' = "serving"
    /\ UNCHANGED <<chunker, groqKey, vector_store, chat_handler, index, metadata,
                   diskIndex, diskMeta, req, loop, call, crashes>>

(* POST /upload-pdfs/: a request that arrives while the loop is busy      *)
(* waits, unseen, until the loop is idle; then upload_pdfs runs up to its *)
(* first await: the components check (500), then the head of the loop.    *)
UploadBegin(r, files) ==
    /\ phase = "serving"
    /\ loop = 0
    /\ NextId(r)
    /\ Len(index) + PendingChunks(Requests) + TotalChunks(files) <= MaxEntries
    /\ req' = [req EXCEPT ![r] =
                 IF ~vector_store THEN Finish([NoRequest EXCEPT !.kind = "upload"], 500)
                 ELSE LoopHead([NoRequest EXCEPT !.kind = "upload", !.files = files,
                                                 !.fi = 1])]
    /\ UNCHANGED <<chunker, phase, groqKey, vector_store, chat_handler, index, metadata,
                   diskIndex, diskMeta, loop, call, crashes>>

(* upload_pdfs resumed after `await file.read()`: the file is saved and   *)
(* processed.  An exception ends the request with a 500 (the except       *)
(* clause raises HTTPException inside the loop); otherwise add_chunks is  *)
(* entered, on the event loop.                                            *)
UploadProcess(r) ==
    /\ phase = "serving"
    /\ loop = 0
    /\ req[r].kind = "upload" /\ req[r].pc = "await_read"
    /\ \E saved \in BOOLEAN :
         LET rec == req[r]
             p == process_pdf(rec.files[rec.fi], r, rec.fi)
         IN  IF ~saved
               THEN /\ req' = [req EXCEPT ![r] = Finish(rec, 500)]
                    /\ loop' = 0
             ELSE IF ~p.ok
               THEN /\ req' = [req EXCEPT ![r] = Finish(rec, 500)]
                    /\ loop' = 0
             ELSE /\ req' = [req EXCEPT ![r] = [rec EXCEPT !.pc = "add_chunks",
                                                            !.chunks = p.chunks]]
                  /\ loop' = r
    /\ UNCHANGED <<chunker, phase, groqKey, vector_store, chat_handler, index, metadata,
                   diskIndex, diskMeta, call, crashes>>

----------------------------------------------------------------------------
(* add_chunks, step by step.  It runs on the event loop (loop = r) from   *)
(* its call to its return: none of its steps awaits.                      *)

(* An add_chunks that embeds and adds chunk by chunk: when the embedding  *)
(* fails after the first chunk, that chunk's vector is already in the     *)
(* index.                                                                 *)
AddEncodePartial(r) ==
    /\ loop = r
    /\ req[r].pc = "add_chunks"
    /\ \E encoded \in BOOLEAN :
         LET rec == req[r]
         IN  IF rec.chunks = <<>>
               THEN /\ req' = [req EXCEPT ![r].pc = "add_return"]
                    /\ index' = index
             ELSE IF encoded
               THEN /\ req' = [req EXCEPT ![r].pc = "add_index",
                                          ![r].emb = [i \in 1..Len(rec.chunks) |->
                                                        normalize_L2(encode(rec.chunks[i].content))]]
                    /\ index' = index
             ELSE /\ req' = [req EXCEPT ![r].pc = "add_raised"]
                  /\ index' = Append(index, normalize_L2(encode(rec.chunks[1].content)))
    /\ UNCHANGED <<chunker, phase, groqKey, vector_store, chat_handler, metadata,
                   diskIndex, diskMeta, loop, call, crashes>>

(* `if not chunks: return`, then model.encode and normalize_L2.  A raised *)
(* exception is printed and raised again.                                 *)
AddEncode(r) ==
    /\ loop = r
    /\ req[r].pc = "add_chunks"
    /\ \E encoded \in BOOLEAN :
         LET rec == req[r]
         IN  req' = [req EXCEPT ![r] =
                       IF rec.chunks = <<>> THEN [rec EXCEPT !.pc = "add_return"]
                       ELSE IF encoded
                         THEN [rec EXCEPT !.pc = "add_index",
                                          !.emb = [i \in 1..Len(rec.chunks) |->
                                                     normalize_L2(encode(rec.chunks[i].content))]]
                       ELSE [rec EXCEPT !.pc = "add_raised"]]
    /\ UNCHANGED <<chunker, phase, groqKey, vector_store, chat_handler, index, metadata,
                   diskIndex, diskMeta, loop, call, crashes>>

(* self.index.add(embeddings) *)
AddIndex(r) ==
    /\ loop = r
    /\ req[r].pc = "add_index"
    /\ index' = index \o req[r].emb
    /\ req' = [req EXCEPT ![r].pc = "add_meta"]
    /\ UNCHANGED <<chunker, phase, groqKey, vector_store, chat_handler, metadata,
                   diskIndex, diskMeta, loop, call, crashes>>

(* one turn of `for chunk in chunks: self.metadata.append({...})` *)
AddMeta(r) ==
    /\ loop = r
    /\ req[r].pc = "add_meta"
    /\ metadata' = Append(metadata, req[r].chunks[req[r].ai + 1])
    /\ req' = [req EXCEPT ![r].ai = @ + 1,
                          ![r].pc = IF req[r].ai + 1 = Len(req[r].chunks)
                                      THEN "save_iopen" ELSE "add_meta"]
    /\ UNCHANGED <<chunker, phase, groqKey, vector_store, chat_handler, index,
                   diskIndex, diskMeta, loop, call, crashes>>

(* save_index: faiss.write_index opens faiss_index.bin for writing, which *)
(* empties it.  An exception anywhere in save_index is printed and        *)
(* save_index returns normally.                                           *)
SaveIndexOpen(r) ==
    /\ loop = r
    /\ req[r].pc = "save_iopen"
    /\ \E opened \in BOOLEAN :
         IF opened
           THEN /\ diskIndex' = Truncated
                /\ req' = [req EXCEPT ![r].pc = "save_iwrite"]
           ELSE /\ diskIndex' = diskIndex
                /\ req' = [req EXCEPT ![r].pc = "add_return"]
    /\ UNCHANGED <<chunker, phase, groqKey, vector_store, chat_handler, index, metadata,
                   diskMeta, loop, call, crashes>>

(* faiss.write_index writes the index *)
SaveIndexWrite(r) ==
    /\ loop = r
    /\ req[r].pc = "save_iwrite"
    /\ \E written \in BOOLEAN :
         IF written
           THEN /\ diskIndex' = write_index(index)
                /\ req' = [req EXCEPT ![r].pc = "save_mopen"]
           ELSE /\ diskIndex' = diskIndex
                /\ req' = [req EXCEPT ![r].pc = "add_return"]
    /\ UNCHANGED <<chunker, phase, groqKey, vector_store, chat_handler, index, metadata,
                   diskMeta, loop, call, crashes>>

(* open(self.metadata_path, 'wb') empties metadata.pkl *)
SaveMetaOpen(r) ==
    /\ loop = r
    /\ req[r].pc = "save_mopen"
    /\ \E opened \in BOOLEAN :
         IF opened
           THEN /\ diskMeta' = Truncated
                /\ req' = [req EXCEPT ![r].pc = "save_mwrite"]
           ELSE /\ diskMeta' = diskMeta
                /\ req' = [req EXCEPT ![r].pc = "add_return"]
    /\ UNCHANGED <<chunker, phase, groqKey, vector_store, chat_handler, index, metadata,
                   diskIndex, loop, call, crashes>>

(* pickle.dump(self.metadata, f) *)
SaveMetaWrite(r) ==
    /\ loop = r
    /\ req[r].pc = "save_mwrite"
    /\ \E written \in BOOLEAN :
         /\ diskMeta' = IF written THEN pickle_dump(metadata) ELSE diskMeta
         /\ req' = [req EXCEPT ![r].pc = "add_return"]
    /\ UNCHANGED <<chunker, phase, groqKey, vector_store, chat_handler, index, metadata,
                   diskIndex, loop, call, crashes>>

(* add_chunks has returned: processed_files.append, then the next file    *)
(* (up to its await) or the 200 response                                  *)
AddReturn(r) ==
    /\ loop = r
    /\ req[r].pc = "add_return"
    /\ LET rec == req[r]
       IN  req' = [req EXCEPT ![r] =
                     LoopHead([rec EXCEPT
                                 !.processed = Append(@, rec.files[rec.fi].filename),
                                 !.fi = @ + 1, !.chunks = <<>>, !.emb = <<>>, !.ai = 0])]
    /\ loop' = 0
    /\ UNCHANGED <<chunker, phase, groqKey, vector_store, chat_handler, index, metadata,
                   diskIndex, diskMeta, call, crashes>>

(* add_chunks has raised: the except clause of upload_pdfs answers 500 *)
AddRaise(r) ==
    /\ loop = r
    /\ req[r].pc = "add_raised"
    /\ req' = [req EXCEPT ![r] = Finish(@, 500)]
    /\ loop' = 0
    /\ UNCHANGED <<chunker, phase, groqKey, vector_store, chat_handler, index, metadata,
                   diskIndex, diskMeta, call, crashes>>

----------------------------------------------------------------------------
(* chat and generate_response: none of their steps awaits *)

(* POST /chat/: chat up to the call of the completion service: the       *)
(* chat_handler check (500), then search(question, k=top_k); with no      *)
(* results the canned answer is returned at once.                         *)
ChatBegin(r, q) ==
    /\ phase = "serving"
    /\ loop = 0
    /\ NextId(r)
    /\ IF ~chat_handler
         THEN /\ req' = [req EXCEPT ![r] = Finish([NoRequest EXCEPT !.kind = "chat"], 500)]
              /\ loop' = 0
         ELSE \E out \in SearchOutcomes(index, metadata, q, TopK) :
                IF out.results = <<>>
                  THEN /\ req' = [req EXCEPT ![r] =
                                    Finish([NoRequest EXCEPT !.kind = "chat"], 200)]
                       /\ loop' = 0
                  ELSE /\ req' = [req EXCEPT ![r] =
                                    [NoRequest EXCEPT !.kind = "chat", !.pc = "chat_llm",
                                                      !.slots = out.slots,
                                                      !.results = out.results]]
                       /\ loop' = r
    /\ UNCHANGED <<chunker, phase, groqKey, vector_store, chat_handler, index, metadata,
                   diskIndex, diskMeta, call, crashes>>

(* client.chat.completions.create: the answer, or an exception that       *)
(* generate_response turns into an apology; either way a ChatResponse     *)
ChatRespond(r) ==
    /\ loop = r
    /\ req[r].pc = "chat_llm"
    /\ req' = [req EXCEPT ![r] = Finish(@, 200)]
    /\ loop' = 0
    /\ UNCHANGED <<chunker, phase, groqKey, vector_store, chat_handler, index, metadata,
                   diskIndex, diskMeta, call, crashes>>

(* VectorStore.search(query, k) called directly, with any k >= 1, between *)
(* two requests                                                           *)
SearchCall(q, k) ==
    /\ phase = "serving"
    /\ vector_store
    /\ loop = 0
    /\ Quiescent
    /\ \E out \in SearchOutcomes(index, metadata, q, k) :
         call' = [active |-> TRUE, q |-> q, k |-> k, slots |-> out.slots,
                  results |-> out.results]
    /\ loop' = Caller
    /\ UNCHANGED <<chunker, phase, groqKey, vector_store, chat_handler, index, metadata,
                   diskIndex, diskMeta, req, crashes>>

(* the caller drops the result *)
SearchReturn ==
    /\ loop = Caller
    /\ call' = NoCall
    /\ loop' = 0
    /\ UNCHANGED <<chunker, phase, groqKey, vector_store, chat_handler, index, metadata,
                   diskIndex, diskMeta, req, crashes>>

(* The process dies: memory and the requests in flight are lost, the      *)
(* files stay as they are.                                                *)
Crash ==
    /\ phase # "down"
    /\ crashes < MaxCrashes
    /\ crashes' = crashes + 1
    /\ phase' = "down"
    /\ vector_store' = FALSE
    /\ chat_handler' = FALSE
    /\ index' = <<>>
    /\ metadata' = <<>>
    /\ req' = [r \in Requests |->
                 IF req[r].pc \in {"none", "done", "lost"} THEN req[r]
                 ELSE [Finish(req[r], 0) EXCEPT !.pc = "lost"]]
    /\ loop' = 0
    /\ call' = NoCall
    /\ UNCHANGED <<chunker, groqKey, diskIndex, diskMeta>>

Next ==
    \/ Startup
    \/ Serve
    \/ \E r \in Requests : \E files \in Uploads : UploadBegin(r, files)
    \/ \E r \in Requests : UploadProcess(r)
    \/ \E r \in Requests : AddEncode(r)
    \/ \E r \in Requests : AddIndex(r)
    \/ \E r \in Requests : AddMeta(r)
    \/ \E r \in Requests : SaveIndexOpen(r)
    \/ \E r \in Requests : SaveIndexWrite(r)
    \/ \E r \in Requests : SaveMetaOpen(r)
    \/ \E r \in Requests : SaveMetaWrite(r)
    \/ \E r \in Requests : AddReturn(r)
    \/ \E r \in Requests : AddRaise(r)
    \/ \E r \in Requests : \E q \in Questions : ChatBegin(r, q)
    \/ \E r \in Requests : ChatRespond(r)
    \/ \E q \in Questions : \E k \in 1..MaxK : SearchCall(q, k)
    \/ SearchReturn
    \/ Crash

Spec == Init /\ [][Next]_vars

----------------------------------------------------------------------------
(* create_chunks as a process: one call on a one-page document, followed  *)
(* iteration by iteration.  The server takes no step meanwhile.           *)

Alphabet == {"a", ".", " ", "\n"}
RunLens == {1, 60, 900, 1000, 2000}

\* A page text as extract_text_from_pdf hands it over: text.strip(), and
\* not empty (document_processor.py:26-28).
PageTexts ==
    {t \in UNION {[1..m -> [ch : Alphabet, n : RunLens]] : m \in 1..MaxRuns} :
        t[1].ch \notin Whitespace /\ t[Len(t)].ch \notin Whitespace}

\* DocumentProcessor(chunk_size, chunk_overlap) with
\* 0 <= chunk_overlap < chunk_size; the first pair is DocumentProcessor().
Configs ==
    {c \in {DefaultChunkSize, 150} \X {DefaultChunkOverlap, 100, 0} :
        0 <= c[2] /\ c[2] < c[1]}

IsDefault == chunk_size = DefaultChunkSize /\ chunk_overlap = DefaultChunkOverlap

\* Line 59: end = min(start + self.chunk_size, len(text))
WindowEnd == Min(start + chunk_size, TextLen(text))

InitChunks ==
    /\ phase = "down"
    /\ groqKey = FALSE
    /\ vector_store = FALSE
    /\ chat_handler = FALSE
    /\ index = <<>>
    /\ metadata = <<>>
    /\ diskIndex = Missing
    /\ diskMeta = Missing
    /\ req = [r \in Requests |-> NoRequest]
    /\ loop = 0
    /\ call = NoCall
    /\ crashes = 0
    /\ \E c \in Configs : chunk_size = c[1] /\ chunk_overlap = c[2]
    /\ text \in PageTexts
    /\ start = 0
    /\ end = 0
    /\ chunks = <<>>
    /\ iter = 0
    /\ cpc = "loop"

(* Lines 58-78, one iteration of `while start < len(text)`.  A chunk      *)
(* records, next to its content, the source range text[start:end] it was  *)
(* cut from and the iteration that emitted it.  An iteration in which      *)
(* text[i] raises IndexError has no successor here; ScanStaysInText below *)
(* shows that none is reached.                                            *)
WindowStep ==
    /\ cpc = "loop"
    /\ start < TextLen(text)
    /\ iter < MaxIter
    /\ ~Raises(text, start, WindowEnd)
    /\ LET e == BreakEnd(text, start, WindowEnd)
           sl == Slice(text, start, e)
           chunk_text == Strip(text, sl[1], sl[2])
       IN  /\ end' = e
           /\ chunks' = IF chunk_text[2] - chunk_text[1] > MinContent
                          THEN Append(chunks, [content |-> chunk_text,
                                               start |-> start, end |-> e,
                                               iter |-> iter + 1])
                          ELSE chunks
           /\ start' = NextStart(e, TextLen(text), chunk_overlap)
    /\ iter' = iter + 1
    /\ UNCHANGED <<server, chunk_size, chunk_overlap, text, cpc>>

(* Lines 58, 80-81: the loop condition fails and the chunks are returned. *)
PageEnd ==
    /\ cpc = "loop"
    /\ start >= TextLen(text)
    /\ cpc' = "returned"
    /\ UNCHANGED <<server, chunk_size, chunk_overlap, text, start, end,
                   chunks, iter>>

NextChunks ==
    \/ WindowStep
    \/ PageEnd

SpecChunks == InitChunks /\ [][NextChunks]_vars

----------------------------------------------------------------------------
(* Vocabulary of the properties *)

(* The program counters inside add_chunks, from its call to the end of save_index *)
AddPcs == {"add_chunks", "add_index", "add_meta", "save_iopen", "save_iwrite",
           "save_mopen", "save_mwrite"}

InAdd(r) == req[r].pc \in AddPcs

(* add_chunks has just returned normally from a non-empty batch *)
AddSucceeded(r) == req[r].pc = "add_return" /\ req[r].chunks # <<>>

(* The searches whose return value is still held by their caller; the     *)
(* store cannot change while one is held (the caller runs on the loop).  *)
HeldSearches ==
    (IF call.active
       THEN {[k |-> call.k, slots |-> call.slots, results |-> call.results]}
       ELSE {})
    \cup {[k |-> TopK, slots |-> req[r].slots, results |-> req[r].results] :
            r \in {x \in Requests : req[x].pc = "chat_llm"}}

(* The position of a record in the metadata list (chunk ids are unique) *)
Pos(m) == CHOOSE p \in 1..Len(metadata) : metadata[p] = m

----------------------------------------------------------------------------
(* C1: once the engine is loaded and no add_chunks call is under way, the *)
(* index holds as many vectors as the metadata list holds records.        *)
C1_Correspondence ==
    (phase # "down" /\ vector_store /\ \A r \in Requests : ~InAdd(r))
        => Len(index) = Len(metadata)

(* Once add_chunks has appended a batch of n chunks, the last n records   *)
(* of the metadata are the batch and the last n vectors of the index are  *)
(* its embeddings: both grew by exactly n.                                *)
AddAppendsBatch ==
    \A r \in Requests :
        (req[r].pc \in {"save_iopen", "save_iwrite", "save_mopen", "save_mwrite",
                        "add_return"} /\ req[r].chunks # <<>>)
            => LET n == Len(req[r].chunks)
               IN  /\ Len(metadata) >= n /\ Len(index) >= n
                   /\ SubSeq(metadata, Len(metadata) - n + 1, Len(metadata)) = req[r].chunks
                   /\ SubSeq(index, Len(index) - n + 1, Len(index)) = req[r].emb

(* C2: when the embedding step of add_chunks fails, that step changes     *)
(* neither the index, the metadata nor the two files, and the exception   *)
(* reaches the caller: the upload answers 500 with the store as it was.   *)
C2_EmbedFailureCommitsNothing ==
    [][\A r \in Requests :
         /\ (req[r].pc = "add_chunks" /\ req'[r].pc = "add_raised")
               => /\ index' = index /\ metadata' = metadata
                  /\ diskIndex' = diskIndex /\ diskMeta' = diskMeta
         /\ (req[r].pc = "add_raised" /\ req'[r].pc # "add_raised")
               => \/ phase' = "down"
                  \/ /\ req'[r].pc = "done" /\ req'[r].status = 500
                     /\ index' = index /\ metadata' = metadata
                     /\ diskIndex' = diskIndex /\ diskMeta' = diskMeta]_vars

(* C2 witness: the embedding of a batch has failed on a store that holds  *)
(* persisted chunks.                                                      *)
C2_Witness ==
    \E r \in Requests :
        /\ req[r].pc = "add_raised"
        /\ Len(index) > 0 /\ Len(metadata) > 0
        /\ read_index_ok(diskIndex) /\ pickle_load_ok(diskMeta)

(* C3: when add_chunks returns normally from a non-empty batch, the two   *)
(* files hold the serialised index and metadata, every chunk included.    *)
C3_SuccessMeansPersisted ==
    \A r \in Requests :
        AddSucceeded(r)
            => diskIndex = write_index(index) /\ diskMeta = pickle_dump(metadata)

(* C4: after the process has died, a readable index file and a readable   *)
(* metadata file hold the same number of entries.                         *)
C4_CrashLeavesSameCounts ==
    (phase = "down" /\ read_index_ok(diskIndex) /\ pickle_load_ok(diskMeta))
        => diskIndex.n = diskMeta.n

(* C5: after the startup load the engine holds the persisted pair when    *)
(* both files exist, deserialise and have the same entry count, and an    *)
(* empty index and empty metadata in every other case.                    *)
C5_LoadValidates ==
    (phase = "started" /\ vector_store)
        => IF /\ exists(diskIndex) /\ exists(diskMeta)
              /\ read_index_ok(diskIndex) /\ pickle_load_ok(diskMeta)
              /\ diskIndex.n = diskMeta.n
             THEN index = diskIndex.body /\ metadata = diskMeta.body
             ELSE index = <<>> /\ metadata = <<>>

(* C6: when add_chunks returns normally from a non-empty batch, a fresh   *)
(* load of the two files gives the index and the metadata that are in     *)
(* memory, entry for entry.                                               *)
C6_RoundTrip ==
    \A r \in Requests :
        AddSucceeded(r)
            => load_or_create_index(diskIndex, diskMeta)
                 = [index |-> index, metadata |-> metadata]

(* C7: the scores of a search result never increase, and of two results   *)
(* with equal scores the one inserted earlier comes first.                *)
C7_Ordering ==
    \A s \in HeldSearches :
        \A i, j \in 1..Len(s.results) :
            i < j => /\ s.results[i].score >= s.results[j].score
                     /\ (s.results[i].score = s.results[j].score
                           => Pos(s.results[i].meta) < Pos(s.results[j].meta))

(* C8: a search returns at most min(k, entries) results; they are, in     *)
(* slot order, the metadata records at the labels that are neither -1 nor *)
(* beyond the metadata list, every other slot being left out; and on an   *)
(* engine without entries the result is empty.                            *)
C8_ResultsValid ==
    \A s \in HeldSearches :
        LET valid == SelectSeq(s.slots,
                        LAMBDA slot : slot.label \in 0..(Len(metadata) - 1))
        IN  /\ Len(s.results) <= Min(s.k, Min(Len(index), Len(metadata)))
            /\ Len(s.results) = Len(valid)
            /\ \A i \in 1..Len(s.results) :
                 /\ s.results[i].meta = metadata[valid[i].label + 1]
                 /\ s.results[i].score = valid[i].score
            /\ (Len(metadata) = 0 => s.results = <<>>)

(* C8 witness: a direct search with k below the number of entries has     *)
(* returned k records while the index held a vector beyond the metadata.  *)
C8_Witness ==
    /\ call.active
    /\ call.k < Len(metadata)
    /\ Len(call.results) = call.k
    /\ Len(index) > Len(metadata)

(* C9: when a document of an upload cannot be processed, every other      *)
(* processable document of the request has been processed by the time the *)
(* request is answered.                                                   *)
C9_SiblingsSurvive ==
    [][\A r \in Requests :
         (/\ req[r].pc = "await_read" /\ req'[r].pc = "done"
          /\ ~process_pdf(req[r].files[req[r].fi], r, req[r].fi).ok)
            => \A i \in 1..Len(req[r].files) :
                 process_pdf(req[r].files[i], r, i).ok
                    => req[r].files[i].filename \in Range(req[r].processed)]_vars

(* The add-and-persist sequence of one add_chunks call overlaps neither   *)
(* another add_chunks call nor a search.                                  *)
AddSerialized ==
    /\ Cardinality({r \in Requests : InAdd(r)}) <= 1
    /\ (\E r \in Requests : InAdd(r)) => HeldSearches = {}

(* C10: add_chunks calls are serialised against each other and against    *)
(* searches, and no search sees an index whose length differs from the    *)
(* length of the metadata.                                                *)
C10_SerializedAndAligned ==
    /\ AddSerialized
    /\ \A r \in Requests :
         (req[r].pc = "chat_llm" /\ req[r].slots # <<>>)
            => Len(index) = Len(metadata)

----------------------------------------------------------------------------
(* Properties of create_chunks, checked on SpecChunks *)

\* An iteration of the window loop is taken.
Iterates == cpc = "loop" /\ iter' = iter + 1

\* Lemma: with 0 <= chunk_overlap < chunk_size the scan of line 64 never
\* leaves the text, so no iteration ends in an IndexError.
ScanStaysInText ==
    (cpc = "loop" /\ start < TextLen(text)) => ~Raises(text, start, WindowEnd)

\* The terminators among the last LookBack characters of the window
\* text[start:WindowEnd].
LastTerminators ==
    {i \in Max(Max(start, WindowEnd - LookBack), 0)..(WindowEnd - 1) :
        CharAt(text, i) \in Terminators}

\* C11: for a window that ends before the end of the page text, if a
\* terminator ('.', '!', '?' or newline) occurs within the last 100
\* characters of the window, the source range of the iteration ends just
\* after the last such character (end = its index + 1), and so does not
\* extend past the computed window end.
C11_BreakInsideWindow ==
    [][(Iterates /\ WindowEnd < TextLen(text) /\ LastTerminators # {})
           => /\ end' = SetMax(LastTerminators) + 1
              /\ end' <= WindowEnd]_vars

\* A chunk whose source range reaches the end of the page text.
EndOfText(c) == c.end >= TextLen(text)

\* C12: for any two adjacent chunks emitted from the page where the first
\* is not an end-of-text chunk, the source range of the next chunk starts
\* exactly chunk_overlap characters before the end of the first chunk's
\* source range.
C12_AdjacentOverlap ==
    \A j \in 1..(Len(chunks) - 1) :
        ~EndOfText(chunks[j]) => chunks[j + 1].start = chunks[j].end - chunk_overlap

\* Lemma: the same holds of two chunks that consecutive iterations emit,
\* with no dropped window between them.
ConsecutiveWindowsOverlap ==
    \A j \in 1..(Len(chunks) - 1) :
        (~EndOfText(chunks[j]) /\ chunks[j + 1].iter = chunks[j].iter + 1)
            => chunks[j + 1].start = chunks[j].end - chunk_overlap

\* C13: on each iteration of the window loop the window start strictly
\* increases and is never negative, for every DocumentProcessor with
\* 0 <= chunk_overlap < chunk_size (so the loop ends on every page text).
C13_StartIncreases ==
    [][Iterates => (start' > start /\ start' >= 0)]_vars

\* Lemma: it does with the default configuration.
DefaultStartIncreases ==
    [][(Iterates /\ IsDefault) => (start' > start /\ start' >= 0)]_vars

====
